---- MODULE Spec2Model ----
(***************************************************************************)
(* Model of the share-based rebalancing simulator (src/src/backtester.py)  *)
(* and of the constrained allocator (src/src/portfolio_optimizer.py).      *)
(*                                                                         *)
(* Python floats are modelled as exact rationals <<n, d>> with d > 0 in    *)
(* lowest terms, so that equal numbers are equal values.  pandas Series    *)
(* indexed by symbol are functions over Symbols; a Series' .values is the  *)
(* sequence of its entries in the Series' own label order.                 *)
(***************************************************************************)
EXTENDS Integers, Sequences, FiniteSets, TLC

\* ------------------------------------------------------------------ bounds
\* Number of rows (dates) of the input tables.
MaxDates == 3

\* Largest asset universe handed to the allocator.
MaxAssets == 2

\* ------------------------------------------------ exact rational arithmetic
Abs(x) == IF x < 0 THEN -x ELSE x

RECURSIVE GCD(_, _)
GCD(a, b) == IF b = 0 THEN a ELSE GCD(b, a % b)

\* The rational n/d (d # 0) in lowest terms with a positive denominator.
Rat(n, d) ==
    LET s == IF d < 0 THEN -1 ELSE 1
        g == GCD(Abs(n), Abs(d))
    IN  <<(s * n) \div g, (s * d) \div g>>

Zero == Rat(0, 1)
One == Rat(1, 1)

\* Sums and products cancel common factors before multiplying, which keeps
\* the intermediate integers small.
RAdd(a, b) ==
    LET g == GCD(a[2], b[2])
    IN  Rat(a[1] * (b[2] \div g) + b[1] * (a[2] \div g), (a[2] \div g) * b[2])
RNegate(a) == <<-a[1], a[2]>>
RSub(a, b) == RAdd(a, RNegate(b))
RMul(a, b) ==
    LET g1 == GCD(Abs(a[1]), b[2])
        g2 == GCD(Abs(b[1]), a[2])
    IN  <<(a[1] \div g1) * (b[1] \div g2), (a[2] \div g2) * (b[2] \div g1)>>
RInv(b) == IF b[1] < 0 THEN <<-b[2], -b[1]>> ELSE <<b[2], b[1]>>
RDiv(a, b) == RMul(a, RInv(b))
RAbs(a) == <<Abs(a[1]), a[2]>>
RLe(a, b) == RSub(a, b)[1] <= 0
RLt(a, b) == RSub(a, b)[1] < 0
RPos(a) == a[1] > 0
RNeg(a) == a[1] < 0

\* np.sum / Series.sum of a sequence of numbers.
RECURSIVE SeqSum(_)
SeqSum(xs) == IF xs = <<>> THEN Zero ELSE RAdd(Head(xs), SeqSum(Tail(xs)))

\* ------------------------------------------------------------ configuration
\* settings.ASSET_SYMBOLS: the asset universe (two symbols in the model).
Symbols == {"A", "B"}

\* The column order of the two input tables.
TableColumns == <<"A", "B">>

\* The orders settings.ASSET_SYMBOLS can list the universe in.
AssetOrders == {<<"A", "B">>, <<"B", "A">>}

\* Constructor argument initial_capital.
InitialCapital == 8

\* Constructor arguments (transaction_cost_bps, slippage_bps).
BpsConfigs == {<<0, 0>>, <<1000, 250>>}

\* bps / 10000
BpsToRate(bps) == Rat(bps, 10000)

\* ------------------------------------------------------------------- inputs
\* A complete price row of df_prices: a positive price per symbol.
PriceRows == [Symbols -> {Rat(1, 1), Rat(2, 1)}]

\* A complete row of df_optimal_weights.  The table is not validated by the
\* simulator: rows that leave cash uninvested and rows summing to more than 1
\* are accepted like any other.
WeightRows ==
    { [A |-> Rat(1, 2), B |-> Rat(1, 2)],
      [A |-> Rat(0, 1), B |-> Rat(1, 2)],
      [A |-> Rat(1, 1), B |-> Rat(1, 1)] }

\* What a date's rows hold: all values, a NaN price, or a NaN weight.
RowKinds == {"complete", "nan_price", "nan_weight"}

Dates == 1..MaxDates

\* Series.values: the entries of series s in label order idx.
Values(s, idx) == [j \in 1..Len(idx) |-> s[idx[j]]]

\* (series a * series b).sum() over the universe.
DotSum(a, b) == SeqSum([j \in 1..Len(TableColumns) |->
                          RMul(a[TableColumns[j]], b[TableColumns[j]])])

VARIABLES
    \* Backtester fields and settings
    transaction_cost_rate, slippage_rate, asset_symbols_ordered,
    portfolio_history, trades_history,
    \* input tables: the NaN pattern per date (values are read row by row)
    row_kind,
    \* run_backtest locals
    pc, df_merged, i, k,
    portfolio_value, cash_balance, current_holdings, previous_weights,
    trade_cost, portfolio_value_after_cost,
    current_prices, target_weights, current_asset_values,
    target_shares, shares_to_trade,
    portfolio_history_list, warnings,
    \* two runs of run_backtest on the same tables, one with zero cost rates
    pair_pc, pair_i, run_costed, run_free,
    \* one call of mean_variance_optimization
    opt_pc, opt_args, opt_result,
    \* one call of identify_regimes
    reg_pc, reg_args, regime,
    \* one call of generate_regime_specific_weights
    sel_pc, sel_args, sel_result

btVars == <<transaction_cost_rate, slippage_rate, asset_symbols_ordered,
            portfolio_history, trades_history, row_kind,
            pc, df_merged, i, k,
            portfolio_value, cash_balance, current_holdings, previous_weights,
            trade_cost, portfolio_value_after_cost,
            current_prices, target_weights, current_asset_values,
            target_shares, shares_to_trade,
            portfolio_history_list, warnings>>

pairVars == <<pair_pc, pair_i, run_costed, run_free>>

optVars == <<opt_pc, opt_args, opt_result>>

regVars == <<reg_pc, reg_args, regime>>

selVars == <<sel_pc, sel_args, sel_result>>

vars == <<btVars, pairVars, optVars, regVars, selVars>>

ZeroSeries == [s \in Symbols |-> Zero]

\* ------------------------------------------------------- Backtester helpers
\* A cost that keeps the sign of the weight change (np.abs dropped, operands
\* swapped).
CalculateTradeCostSigned(old_weights, new_weights, current_portfolio_value, rate) ==
    RMul(SeqSum([j \in 1..Len(new_weights) |->
                   RSub(RMul(old_weights[j], current_portfolio_value),
                        RMul(new_weights[j], current_portfolio_value))]),
         rate)

\* Backtester._calculate_trade_cost: old_weights and new_weights are the
\* positional arrays the caller passes (.values of two Series).
CalculateTradeCost(old_weights, new_weights, current_portfolio_value, rate) ==
    LET capital_traded ==
            SeqSum([j \in 1..Len(new_weights) |->
                      RAbs(RSub(RMul(new_weights[j], current_portfolio_value),
                                RMul(old_weights[j], current_portfolio_value)))])
    IN  RMul(capital_traded, rate)

\* A dropna that looks at the price columns only.
DropNaPricesOnly(kinds) ==
    SelectSeq([d \in Dates |-> d], LAMBDA d : kinds[d] # "nan_price")

\* df_merged = concat(...).dropna(): the dates whose rows hold no NaN.
DropNa(kinds) == SelectSeq([d \in Dates |-> d], LAMBDA d : kinds[d] = "complete")

\* A head that sizes the target shares on the value before the cost.
DateHeadSizesBeforeCost(cash, holdings, prev_weights, prices, weights, rate, order) ==
    LET cav == [s \in Symbols |-> RMul(holdings[s], prices[s])]
        pv == RAdd(SeqSum(Values(cav, TableColumns)), cash)
        cost == CalculateTradeCost(Values(prev_weights, order),
                                   Values(weights, TableColumns), pv, rate)
        ts == [s \in Symbols |-> RDiv(RMul(weights[s], pv), prices[s])]
    IN  [current_asset_values |-> cav,
         portfolio_value |-> pv,
         trade_cost |-> cost,
         portfolio_value_after_cost |-> RSub(pv, cost),
         cash_balance |-> RSub(cash, cost),
         target_shares |-> ts,
         shares_to_trade |-> [s \in Symbols |-> RSub(ts[s], holdings[s])]]

\* The head of a loop iteration: asset values and portfolio value from the
\* holdings before the trades, the cost and its deduction, the share deltas.
DateHead(cash, holdings, prev_weights, prices, weights, rate, order) ==
    LET cav == [s \in Symbols |-> RMul(holdings[s], prices[s])]
        pv == RAdd(SeqSum(Values(cav, TableColumns)), cash)
        cost == CalculateTradeCost(Values(prev_weights, order),
                                   Values(weights, TableColumns), pv, rate)
        pvac == RSub(pv, cost)
        ts == [s \in Symbols |-> RDiv(RMul(weights[s], pvac), prices[s])]
    IN  [current_asset_values |-> cav,
         portfolio_value |-> pv,
         trade_cost |-> cost,
         portfolio_value_after_cost |-> pvac,
         cash_balance |-> RSub(cash, cost),
         target_shares |-> ts,
         shares_to_trade |-> [s \in Symbols |-> RSub(ts[s], holdings[s])]]

\* A loop over the table's columns instead of the configured order.
SymbolAtColumn(order, n) == TableColumns[n]

\* The k-th symbol visited by `for symbol in asset_symbols_ordered`.
SymbolAt(order, n) == order[n]

\* A cash test that refuses a buy costing exactly the cash at hand.
CanBuyStrict(cash, buy_amount) == RLt(buy_amount, cash)

\* The cash test of a buy.
CanBuy(cash, buy_amount) == RLe(buy_amount, cash)

\* A settlement that moves cash by the share count, not by shares * price.
SettleIgnoresPrice(cash, holdings, symbol, shares, price) ==
    [cash |-> RSub(cash, shares),
     holdings |-> [holdings EXCEPT ![symbol] = RAdd(@, shares)],
     warned |-> FALSE]

\* Settlement of an executed trade of `shares` (signed) of `symbol`.
Settle(cash, holdings, symbol, shares, price) ==
    [cash |-> RSub(cash, RMul(shares, price)),
     holdings |-> [holdings EXCEPT ![symbol] = RAdd(@, shares)],
     warned |-> FALSE]

\* A loop body that applies the cash test to sells as well as to buys.
ExecuteTradeChecksSells(cash, holdings, symbol, shares, price) ==
    IF (RPos(shares) \/ RNeg(shares)) /\ CanBuy(cash, RAbs(RMul(shares, price)))
    THEN Settle(cash, holdings, symbol, shares, price)
    ELSE [cash |-> cash, holdings |-> holdings,
          warned |-> RPos(shares) \/ RNeg(shares)]

\* One iteration of the per-symbol loop.
ExecuteTrade(cash, holdings, symbol, shares, price) ==
    IF RPos(shares)
    THEN IF CanBuy(cash, RMul(shares, price))
         THEN Settle(cash, holdings, symbol, shares, price)
         ELSE [cash |-> cash, holdings |-> holdings, warned |-> TRUE]
    ELSE IF RNeg(shares)
         THEN Settle(cash, holdings, symbol, shares, price)
         ELSE [cash |-> cash, holdings |-> holdings, warned |-> FALSE]

\* The whole per-symbol loop, from its n-th iteration on.
RECURSIVE TradeAll(_, _, _, _, _)
TradeAll(st, order, n, shares, prices) ==
    IF n > Len(order)
    THEN st
    ELSE LET symbol == SymbolAt(order, n)
             r == ExecuteTrade(st.cash, st.holdings, symbol,
                               shares[symbol], prices[symbol])
         IN  TradeAll([cash |-> r.cash, holdings |-> r.holdings,
                       warned |-> IF r.warned THEN st.warned \cup {symbol}
                                              ELSE st.warned],
                      order, n + 1, shares, prices)

\* The weight recorded for a symbol.
RecordedWeight(asset_value, final_portfolio_value) ==
    IF final_portfolio_value # Zero
    THEN RDiv(asset_value, final_portfolio_value)
    ELSE Zero

\* The snapshot appended for a date. `asset_values` is current_asset_values,
\* the Series computed at the head of the iteration.
Snapshot(date, cash, holdings, asset_values, prices) ==
    LET final_asset_value == DotSum(holdings, prices)
        final_portfolio_value == RAdd(final_asset_value, cash)
    IN  [Date |-> date,
         Total_Value |-> final_portfolio_value,
         Cash |-> cash,
         Asset_Value |-> final_asset_value,
         Weight |-> [s \in Symbols |->
                       RecordedWeight(asset_values[s], final_portfolio_value)]]

\* previous_weights carried to the next iteration.
CarriedWeights(entry) ==
    IF entry.Total_Value = Zero THEN ZeroSeries ELSE entry.Weight

\* The state run_backtest starts from.
NewRun ==
    [cash |-> Rat(InitialCapital, 1), holdings |-> ZeroSeries,
     previous_weights |-> ZeroSeries, history |-> <<>>, warnings |-> {}]

\* One whole loop iteration of a run.
ProcessDate(run, date, prices, weights, rate, order) ==
    LET h == DateHead(run.cash, run.holdings, run.previous_weights,
                      prices, weights, rate, order)
        t == TradeAll([cash |-> h.cash_balance, holdings |-> run.holdings,
                       warned |-> {}],
                      order, 1, h.shares_to_trade, prices)
        e == Snapshot(date, t.cash, t.holdings, h.current_asset_values, prices)
    IN  [cash |-> t.cash, holdings |-> t.holdings,
         previous_weights |-> CarriedWeights(e),
         history |-> Append(run.history, e),
         warnings |-> run.warnings \cup {<<date, s>> : s \in t.warned}]

\* ---------------------------------------------------------------- Backtester
\* Backtester.__init__: the fields of a new Backtester.
InitBacktester ==
    /\ \E bps \in BpsConfigs :
          /\ transaction_cost_rate = BpsToRate(bps[1])
          /\ slippage_rate = BpsToRate(bps[2])
    /\ asset_symbols_ordered \in AssetOrders
    /\ portfolio_history = <<>>
    /\ trades_history = <<>>
    /\ pc = "start"
    /\ df_merged = <<>>
    /\ i = 1
    /\ k = 1
    /\ portfolio_value = Zero
    /\ cash_balance = Zero
    /\ current_holdings = ZeroSeries
    /\ previous_weights = ZeroSeries
    /\ trade_cost = Zero
    /\ portfolio_value_after_cost = Zero
    /\ current_prices = ZeroSeries
    /\ target_weights = ZeroSeries
    /\ current_asset_values = ZeroSeries
    /\ target_shares = ZeroSeries
    /\ shares_to_trade = ZeroSeries
    /\ portfolio_history_list = <<>>
    /\ warnings = {}

InitPairIdle ==
    /\ pair_pc = "idle"
    /\ pair_i = 1
    /\ run_costed = NewRun
    /\ run_free = NewRun

InitOptIdle ==
    /\ opt_pc = "idle"
    /\ opt_args = <<>>
    /\ opt_result = <<>>

InitRegIdle ==
    /\ reg_pc = "idle"
    /\ reg_args = <<>>
    /\ regime = <<>>

InitSelIdle ==
    /\ sel_pc = "idle"
    /\ sel_args = <<>>
    /\ sel_result = <<>>

Init ==
    /\ InitBacktester
    /\ row_kind \in [Dates -> RowKinds]
    /\ InitPairIdle
    /\ InitOptIdle
    /\ InitRegIdle
    /\ InitSelIdle

\* run_backtest up to the loop, when some date survives dropna.
StartRun ==
    /\ pc = "start"
    /\ DropNa(row_kind) # <<>>
    /\ pc' = "loop"
    /\ df_merged' = DropNa(row_kind)
    /\ portfolio_value' = Rat(InitialCapital, 1)
    /\ cash_balance' = Rat(InitialCapital, 1)
    /\ current_holdings' = ZeroSeries
    /\ previous_weights' = ZeroSeries
    /\ trade_cost' = Zero
    /\ portfolio_history_list' = <<>>
    /\ i' = 1
    /\ UNCHANGED <<transaction_cost_rate, slippage_rate, asset_symbols_ordered,
                   portfolio_history, trades_history, row_kind, k,
                   portfolio_value_after_cost, current_prices, target_weights,
                   current_asset_values, target_shares, shares_to_trade, warnings>>
    /\ UNCHANGED <<pairVars, optVars, regVars, selVars>>

\* run_backtest when no date survives dropna: df_merged.index.min() of an
\* empty index has no strftime result and the call raises.
StartRaises ==
    /\ pc = "start"
    /\ DropNa(row_kind) = <<>>
    /\ pc' = "raised"
    /\ df_merged' = <<>>
    /\ portfolio_value' = Rat(InitialCapital, 1)
    /\ cash_balance' = Rat(InitialCapital, 1)
    /\ UNCHANGED <<transaction_cost_rate, slippage_rate, asset_symbols_ordered,
                   portfolio_history, trades_history, row_kind, i, k,
                   current_holdings, previous_weights, trade_cost,
                   portfolio_value_after_cost, current_prices, target_weights,
                   current_asset_values, target_shares, shares_to_trade,
                   portfolio_history_list, warnings>>
    /\ UNCHANGED <<pairVars, optVars, regVars, selVars>>

\* The head of one loop iteration, on the values of the row it reads.  Rows
\* of df_merged hold no NaN after dropna, so the isnull test that would skip
\* the date never succeeds.
BeginDate ==
    /\ pc = "loop"
    /\ i <= Len(df_merged)
    /\ \E prices \in PriceRows, weights \in WeightRows :
          LET h == DateHead(cash_balance, current_holdings, previous_weights,
                            prices, weights,
                            RAdd(transaction_cost_rate, slippage_rate),
                            asset_symbols_ordered)
          IN  /\ current_prices' = prices
              /\ target_weights' = weights
              /\ current_asset_values' = h.current_asset_values
              /\ portfolio_value' = h.portfolio_value
              /\ trade_cost' = h.trade_cost
              /\ portfolio_value_after_cost' = h.portfolio_value_after_cost
              /\ cash_balance' = h.cash_balance
              /\ target_shares' = h.target_shares
              /\ shares_to_trade' = h.shares_to_trade
    /\ k' = 1
    /\ pc' = "trade"
    /\ UNCHANGED <<transaction_cost_rate, slippage_rate, asset_symbols_ordered,
                   portfolio_history, trades_history, row_kind, df_merged, i,
                   current_holdings, previous_weights,
                   portfolio_history_list, warnings>>
    /\ UNCHANGED <<pairVars, optVars, regVars, selVars>>

\* One iteration of `for symbol in asset_symbols_ordered`.
TradeSymbol ==
    /\ pc = "trade"
    /\ k <= Len(asset_symbols_ordered)
    /\ LET symbol == SymbolAt(asset_symbols_ordered, k)
           r == ExecuteTrade(cash_balance, current_holdings, symbol,
                             shares_to_trade[symbol], current_prices[symbol])
       IN  /\ cash_balance' = r.cash
           /\ current_holdings' = r.holdings
           /\ warnings' = IF r.warned
                          THEN warnings \cup {<<df_merged[i], symbol>>}
                          ELSE warnings
    /\ k' = k + 1
    /\ UNCHANGED <<transaction_cost_rate, slippage_rate, asset_symbols_ordered,
                   portfolio_history, trades_history, row_kind, pc, df_merged, i,
                   portfolio_value, previous_weights, trade_cost,
                   portfolio_value_after_cost, current_prices, target_weights,
                   current_asset_values, target_shares, shares_to_trade,
                   portfolio_history_list>>
    /\ UNCHANGED <<pairVars, optVars, regVars, selVars>>

\* The tail of one loop iteration: the snapshot and the carried weights.
RecordDate ==
    /\ pc = "trade"
    /\ k > Len(asset_symbols_ordered)
    /\ LET e == Snapshot(df_merged[i], cash_balance, current_holdings,
                         current_asset_values, current_prices)
       IN  /\ portfolio_history_list' = Append(portfolio_history_list, e)
           /\ previous_weights' = CarriedWeights(e)
    /\ i' = i + 1
    /\ pc' = "loop"
    /\ UNCHANGED <<transaction_cost_rate, slippage_rate, asset_symbols_ordered,
                   portfolio_history, trades_history, row_kind, df_merged, k,
                   portfolio_value, cash_balance, current_holdings, trade_cost,
                   portfolio_value_after_cost, current_prices, target_weights,
                   current_asset_values, target_shares, shares_to_trade, warnings>>
    /\ UNCHANGED <<pairVars, optVars, regVars, selVars>>

\* The loop is exhausted: the history is stored and returned.
Finish ==
    /\ pc = "loop"
    /\ i > Len(df_merged)
    /\ portfolio_history' = portfolio_history_list
    /\ pc' = "done"
    /\ UNCHANGED <<transaction_cost_rate, slippage_rate, asset_symbols_ordered,
                   trades_history, row_kind, df_merged, i, k,
                   portfolio_value, cash_balance, current_holdings,
                   previous_weights, trade_cost, portfolio_value_after_cost,
                   current_prices, target_weights, current_asset_values,
                   target_shares, shares_to_trade, portfolio_history_list, warnings>>
    /\ UNCHANGED <<pairVars, optVars, regVars, selVars>>

Next ==
    \/ StartRun
    \/ StartRaises
    \/ BeginDate
    \/ TradeSymbol
    \/ RecordDate
    \/ Finish

Spec == Init /\ [][Next]_vars

\* ------------------------------------------------- properties of one run
Last(h) == h[Len(h)]

\* cash + sum of holdings * price
ValueAt(cash, holdings, prices) == RAdd(cash, DotSum(holdings, prices))

\* The holdings the current date started from: target_shares - shares_to_trade.
HeldBefore == [s \in Symbols |-> RSub(target_shares[s], shares_to_trade[s])]

\* The cash left by the cost deduction, before any trade of the date.
CashAfterCost ==
    RSub(portfolio_value_after_cost, DotSum(HeldBefore, current_prices))

TradesDone == pc = "trade" /\ k > Len(asset_symbols_ordered)

\* C1. Conservation: at the date's prices, the cost deduction lowers the
\* total value (cash plus holdings times price) by exactly the trade cost,
\* every step of the per-symbol loop leaves the total value unchanged whether
\* the buy or sell executed or the buy was skipped, and the recorded
\* Total_Value is the value before the date's trades minus the cost.
Conservation ==
    [][ /\ (pc = "loop" /\ pc' = "trade") =>
              /\ portfolio_value' =
                     ValueAt(cash_balance, current_holdings, current_prices')
              /\ ValueAt(cash_balance', current_holdings', current_prices') =
                     RSub(portfolio_value', trade_cost')
        /\ (pc = "trade" /\ pc' = "trade") =>
              ValueAt(cash_balance', current_holdings', current_prices) =
                  ValueAt(cash_balance, current_holdings, current_prices)
        /\ (pc = "trade" /\ pc' = "loop") =>
              /\ Last(portfolio_history_list').Total_Value =
                     RSub(portfolio_value, trade_cost)
              /\ Last(portfolio_history_list').Total_Value =
                     ValueAt(cash_balance', current_holdings', current_prices)
      ]_vars

\* C1 witness: a date with a positive cost whose trades are done, with one
\* buy skipped and another trade executed.
ConservationWitness ==
    /\ TradesDone
    /\ RPos(trade_cost)
    /\ \E s \in Symbols : <<df_merged[i], s>> \in warnings
    /\ current_holdings # HeldBefore

\* C2. Execution rule of one loop iteration: a buy executes in full exactly
\* when cash >= shares * price and otherwise changes neither holdings nor
\* cash; a sell always executes in full; no other symbol's holdings change.
ExecutionRule ==
    [][ (pc = "trade" /\ k <= Len(asset_symbols_ordered)) =>
          LET s == asset_symbols_ordered[k]
              d == shares_to_trade[s]
              amount == RMul(d, current_prices[s])
              full == /\ current_holdings'[s] = RAdd(current_holdings[s], d)
                      /\ cash_balance' = RSub(cash_balance, amount)
              none == /\ current_holdings'[s] = current_holdings[s]
                      /\ cash_balance' = cash_balance
          IN  /\ (RPos(d) /\ RLe(amount, cash_balance)) => full
              /\ (RPos(d) /\ ~RLe(amount, cash_balance)) => none
              /\ RNeg(d) => full
              /\ \A o \in Symbols \ {s} :
                    current_holdings'[o] = current_holdings[o]
      ]_vars

\* C2 witness: a sell has just executed in full although the cash balance
\* was negative when it ran.
ExecutionRuleWitness ==
    /\ pc = "trade"
    /\ k > 1
    /\ LET s == asset_symbols_ordered[k - 1]
           d == shares_to_trade[s]
       IN  /\ RNeg(d)
           /\ current_holdings[s] = target_shares[s]
           /\ RNeg(RAdd(cash_balance, RMul(d, current_prices[s])))

\* The cash settled so far for symbol s on the current date.
SettledAmount(s) ==
    RMul(RSub(current_holdings[s], HeldBefore[s]), current_prices[s])

\* C3. Order sensitivity: at the n-th iteration of the per-symbol loop the
\* cash balance is the cash after cost changed by the settled trades of the
\* symbols earlier in asset_symbols_ordered, and no later symbol has traded.
\* When both of two symbols are buys that the cash after cost covers alone but
\* not together, the first in asset_symbols_ordered is bought in full and the
\* second is skipped, whichever order is configured.
OrderSensitivity ==
    pc = "trade" =>
      LET order == asset_symbols_ordered
          first == order[1]
          second == order[2]
          buy(s) == RMul(shares_to_trade[s], current_prices[s])
      IN  /\ cash_balance =
                 RSub(CashAfterCost,
                      SeqSum([j \in 1..(k - 1) |-> SettledAmount(order[j])]))
          /\ \A j \in k..Len(order) : current_holdings[order[j]] = HeldBefore[order[j]]
          /\ ( /\ k > Len(order)
               /\ RPos(shares_to_trade[first])
               /\ RPos(shares_to_trade[second])
               /\ RLe(buy(first), CashAfterCost)
               /\ RLe(buy(second), CashAfterCost)
               /\ RLt(CashAfterCost, RAdd(buy(first), buy(second))) )
             => /\ current_holdings[first] = target_shares[first]
                /\ current_holdings[second] = HeldBefore[second]
                /\ <<df_merged[i], second>> \in warnings
                /\ <<df_merged[i], first>> \notin warnings

\* C3 witness: with the order B, A and two buys the cash covers only one at a
\* time, B was bought and A was skipped.
OrderSensitivityWitness ==
    /\ TradesDone
    /\ asset_symbols_ordered = <<"B", "A">>
    /\ RPos(shares_to_trade["A"])
    /\ RPos(shares_to_trade["B"])
    /\ RLe(RMul(shares_to_trade["A"], current_prices["A"]), CashAfterCost)
    /\ RLe(RMul(shares_to_trade["B"], current_prices["B"]), CashAfterCost)
    /\ current_holdings["B"] = target_shares["B"]
    /\ current_holdings["A"] = HeldBefore["A"]
    /\ <<df_merged[i], "A">> \in warnings

\* C4. Recorded weights: the weights recorded for a date, and carried as
\* previous_weights, are holdings * price / total_value of the holdings after
\* the date's trades (0 when the total value is 0).
RecordedWeightsArePostTrade ==
    (pc = "loop" /\ portfolio_history_list # <<>>) =>
      LET e == Last(portfolio_history_list)
          realized == [s \in Symbols |->
                         RecordedWeight(RMul(current_holdings[s], current_prices[s]),
                                        e.Total_Value)]
      IN  /\ e.Weight = realized
          /\ previous_weights = realized

\* C5. History and dates: the history holds one entry per date whose rows
\* are complete, in date order, and none for other dates; between two
\* processed dates the cash, holdings and carried weights are those the
\* earlier date recorded, so the next processed date starts from them.
HistoryFollowsCompleteDates ==
    LET h == portfolio_history_list
        complete(d) == row_kind[d] = "complete"
    IN  /\ \A j \in 1..Len(h) : complete(h[j].Date)
        /\ \A j \in 1..Len(h) : \A j2 \in 1..Len(h) : j < j2 => h[j].Date < h[j2].Date
        /\ \A j \in 1..Len(h) : \A d \in Dates :
               (complete(d) /\ d < h[j].Date) => \E j2 \in 1..Len(h) : h[j2].Date = d
        /\ pc = "done" =>
               /\ portfolio_history = h
               /\ \A d \in Dates : complete(d) => \E j \in 1..Len(h) : h[j].Date = d
        /\ (pc = "loop" /\ h # <<>>) =>
               /\ cash_balance = Last(h).Cash
               /\ DotSum(current_holdings, current_prices) = Last(h).Asset_Value
               /\ previous_weights = CarriedWeights(Last(h))
        /\ (pc = "trade" /\ h # <<>>) =>
               RSub(portfolio_value, DotSum(HeldBefore, current_prices)) = Last(h).Cash

\* C5 witness: a run over dates 1 and 3, date 2 having a missing value, has
\* returned a history of exactly those two dates.
HistoryFollowsCompleteDatesWitness ==
    /\ pc = "done"
    /\ row_kind[2] # "complete"
    /\ Len(portfolio_history) = 2
    /\ portfolio_history[1].Date = 1
    /\ portfolio_history[2].Date = 3
    /\ current_holdings # ZeroSeries

\* C8. Data gaps never abort a run: run_backtest never raises.
NeverRaises == pc # "raised"

\* The net share change the trade log records for symbol s.
RECURSIVE LoggedShares(_, _)
LoggedShares(log, s) ==
    IF log = <<>>
    THEN Zero
    ELSE RAdd(IF Head(log).Symbol = s
              THEN (IF Head(log).Action = "buy"
                    THEN Head(log).Shares
                    ELSE RNegate(Head(log).Shares))
              ELSE Zero,
              LoggedShares(Tail(log), s))

\* C10. Trade log consistency: after run_backtest the logged share changes
\* of each symbol add up to the final holdings of that symbol.
TradeLogMatchesHoldings ==
    pc = "done" =>
      \A s \in Symbols : LoggedShares(trades_history, s) = current_holdings[s]

\* C13. Pipeline order within a date.  The head of the iteration computes
\* the portfolio value from the holdings before the trades and the date's
\* prices, deducts the cost from cash, and sizes the target shares on the
\* value after the cost, all before any holding changes and before the
\* snapshot; the loop and the snapshot leave the cost and the targets as they
\* are; a date on which no trade executed records the cash less the cost.
PipelineOrder ==
    [][ /\ (pc = "loop" /\ pc' = "trade") =>
              /\ portfolio_value' =
                     ValueAt(cash_balance, current_holdings, current_prices')
              /\ cash_balance' = RSub(cash_balance, trade_cost')
              /\ current_holdings' = current_holdings
              /\ \A s \in Symbols :
                    target_shares'[s] =
                        RDiv(RMul(target_weights'[s],
                                  RSub(portfolio_value', trade_cost')),
                             current_prices'[s])
              /\ portfolio_history_list' = portfolio_history_list
        /\ (pc = "trade" /\ pc' = "trade") =>
              /\ trade_cost' = trade_cost
              /\ portfolio_value' = portfolio_value
              /\ target_shares' = target_shares
              /\ portfolio_history_list' = portfolio_history_list
        /\ (pc = "trade" /\ pc' = "loop") =>
              /\ k > Len(asset_symbols_ordered)
              /\ Len(portfolio_history_list') = Len(portfolio_history_list) + 1
              /\ Last(portfolio_history_list').Cash = cash_balance
              /\ current_holdings' = current_holdings
              /\ current_holdings = HeldBefore =>
                    Last(portfolio_history_list').Cash =
                        RSub(RSub(portfolio_value,
                                  DotSum(HeldBefore, current_prices)),
                             trade_cost)
      ]_vars

\* C13 witness: a date with a positive cost on which every symbol is a buy
\* and every buy was skipped; the cash is the cash before less the cost.
PipelineOrderWitness ==
    /\ TradesDone
    /\ RPos(trade_cost)
    /\ \A s \in Symbols : RPos(shares_to_trade[s])
    /\ \A s \in Symbols : <<df_merged[i], s>> \in warnings
    /\ current_holdings = HeldBefore
    /\ cash_balance = CashAfterCost

\* The date's target weights are non-negative and sum to 1.
ValidTargetWeights ==
    /\ \A s \in Symbols : RLe(Zero, target_weights[s])
    /\ SeqSum(Values(target_weights, TableColumns)) = One

\* The trades of the current date are done or its snapshot is recorded.
DateEnded ==
    \/ TradesDone
    \/ (pc \in {"loop", "done"} /\ portfolio_history_list # <<>>)

\* C15. Non-negative cash and holdings at the end of a date.  The run starts
\* with positive cash and no holdings; and whenever a date with valid target
\* weights, positive prices and a cost of at most the portfolio value starts
\* from non-negative holdings, it ends with cash >= 0 (also as recorded) and
\* with non-negative holdings.  By induction over the dates, a run whose
\* dates all satisfy the condition ends every date that way.
CashAndHoldingsNonNegative ==
    /\ pc = "loop" /\ portfolio_history_list = <<>> =>
          /\ RPos(cash_balance)
          /\ current_holdings = ZeroSeries
    /\ ( /\ DateEnded
         /\ ValidTargetWeights
         /\ \A s \in Symbols : RPos(current_prices[s])
         /\ RLe(trade_cost, portfolio_value)
         /\ \A s \in Symbols : RLe(Zero, HeldBefore[s]) )
       => /\ RLe(Zero, cash_balance)
          /\ \A s \in Symbols : RLe(Zero, current_holdings[s])
          /\ pc # "trade" => RLe(Zero, Last(portfolio_history_list).Cash)

\* C15 witness: a date with valid weights whose cash was negative after the
\* cost deduction, and whose recorded cash is not, a sell having settled.
CashAndHoldingsNonNegativeWitness ==
    /\ pc = "loop"
    /\ Len(portfolio_history_list) >= 2
    /\ ValidTargetWeights
    /\ RPos(trade_cost)
    /\ RNeg(CashAfterCost)
    /\ \E s \in Symbols : RNeg(shares_to_trade[s])
    /\ RLe(Zero, Last(portfolio_history_list).Cash)

\* ------------------------------------------- two runs on the same tables
\* Two Backtesters on the same complete tables and the same asset order: one
\* with the configured (positive) rates, one with every rate 0.
InitPair ==
    /\ InitBacktester
    /\ transaction_cost_rate # Zero
    /\ row_kind = [d \in Dates |-> "complete"]
    /\ pair_pc = "loop"
    /\ pair_i = 1
    /\ run_costed = NewRun
    /\ run_free = NewRun
    /\ InitOptIdle
    /\ InitRegIdle
    /\ InitSelIdle

\* Both runs process the next date of the tables.
PairDate ==
    /\ pair_pc = "loop"
    /\ pair_i <= MaxDates
    /\ \E prices \in PriceRows, weights \in WeightRows :
          /\ run_costed' = ProcessDate(run_costed, pair_i, prices, weights,
                               RAdd(transaction_cost_rate, slippage_rate),
                               asset_symbols_ordered)
          /\ run_free' = ProcessDate(run_free, pair_i, prices, weights, Zero,
                               asset_symbols_ordered)
    /\ pair_i' = pair_i + 1
    /\ UNCHANGED <<pair_pc, btVars, optVars, regVars, selVars>>

\* Both runs return their histories.
PairFinish ==
    /\ pair_pc = "loop"
    /\ pair_i > MaxDates
    /\ pair_pc' = "done"
    /\ UNCHANGED <<pair_i, run_costed, run_free, btVars, optVars, regVars, selVars>>

NextPair == PairDate \/ PairFinish

SpecPair == InitPair /\ [][NextPair]_vars

\* ------------------------------------------------ properties of two runs
\* No run has skipped a buy on a date before date j.
NoSkipBefore(j) ==
    \A w \in run_costed.warnings \cup run_free.warnings : w[1] >= j

CostedAtMostFree(j) ==
    RLe(run_costed.history[j].Total_Value, run_free.history[j].Total_Value)

\* C7 as stated. Cost-drag monotonicity: at every date the costed run's
\* Total_Value is at most the zero-cost run's.
CostDragEveryDate ==
    \A j \in 1..Len(run_costed.history) : CostedAtMostFree(j)

\* C7 as amended. At every date up to and including the first date on which
\* either run skips a buy, the costed run's Total_Value is at most the
\* zero-cost run's.
CostDragUntilFirstSkip ==
    \A j \in 1..Len(run_costed.history) : NoSkipBefore(j) => CostedAtMostFree(j)

\* C7 witness: on the second date the costed run skips a buy, no buy was
\* skipped before, and the costed run's value is strictly below the other's.
CostDragWitness ==
    /\ Len(run_costed.history) >= 2
    /\ NoSkipBefore(2)
    /\ \E s \in Symbols : <<2, s>> \in run_costed.warnings
    /\ ~ \E s \in Symbols : <<2, s>> \in run_free.warnings
    /\ RLt(run_costed.history[2].Total_Value, run_free.history[2].Total_Value)

\* ------------------------------------------------------------ the allocator
\* Python's None where a number is expected.
None == <<0, 0>>

\* np.ones(n) / n
EqualWeights(n) == [j \in 1..n |-> Rat(1, n)]

\* np.ones(n)
Ones(n) == [j \in 1..n |-> One]

\* The constraint dictionaries built by the function, and the strings that
\* list(d) yields for such a dictionary d (its keys).
ConDict(fun) == [tag |-> "dict", fun |-> fun]
ConKey(key) == [tag |-> "str", fun |-> key]

\* The `cons` value of the objective branch taken: a tuple of two
\* dictionaries for a target risk, one bare dictionary for a risk aversion.
ObjectiveConstraints(target_risk) ==
    IF target_risk # None
    THEN [kind |-> "tuple", items |-> <<ConDict("sum_to_one"), ConDict("target_risk")>>]
    ELSE [kind |-> "dict", items |-> <<ConDict("sum_to_one")>>]

\* list(cons): the elements of a tuple, the keys of a dictionary.
ListOf(cons) ==
    IF cons.kind = "dict" THEN <<ConKey("type"), ConKey("fun")>> ELSE cons.items

\* cons[0]['fun'](initial_weights) == 0 for the tuple of the target-risk
\* branch: the sum-to-one residual of the initial weights.
FirstConstraintHolds(initial_weights) == RSub(SeqSum(initial_weights), One) = Zero

\* The "add sum_to_one constraint if not already added" block.
WithSumToOne(cons, target_risk, constraints, initial_weights) ==
    IF /\ constraints.given
       /\ constraints.sum_to_one
       /\ ~ ( /\ target_risk # None
              /\ Len(cons.items) > 0
              /\ FirstConstraintHolds(initial_weights) )
       /\ target_risk = None
    THEN [kind |-> "tuple", items |-> Append(ListOf(cons), ConDict("sum_to_one"))]
    ELSE cons

\* scipy's minimize(..., method='SLSQP', constraints=cons): it raises when an
\* element of cons is not a dictionary, and otherwise ends as the solver does.
Minimize(cons, solver) ==
    IF \E j \in 1..Len(cons.items) : cons.items[j].tag # "dict"
    THEN [status |-> "exception", x |-> <<>>]
    ELSE solver

\* np.clip(x, 0, 1)
Clip01(x) ==
    [j \in 1..Len(x) |-> IF RLt(x[j], Zero) THEN Zero
                         ELSE IF RLt(One, x[j]) THEN One ELSE x[j]]

\* The success exit: clip, then re-normalise or fall back to equal weights.
ClipAndNormalize(x, num_assets) ==
    LET clipped == Clip01(x)
        total == SeqSum(clipped)
    IN  IF total # Zero
        THEN [j \in 1..Len(clipped) |-> RDiv(clipped[j], total)]
        ELSE EqualWeights(num_assets)

\* mean_variance_optimization. `solver` is how the SLSQP run ends on a
\* well-formed problem: its status and, on success, result.x.  The result
\* records the exit taken by the message the exit prints.
MeanVarianceOptimization(num_assets, target_risk, risk_aversion_lambda, constraints, solver) ==
    IF num_assets = 0
    THEN [kind |-> "return", value |-> <<>>, log |-> "none"]
    ELSE IF target_risk = None /\ risk_aversion_lambda = None
    THEN [kind |-> "raise", value |-> <<>>, log |-> "ValueError"]
    ELSE LET initial_weights == EqualWeights(num_assets)
             cons == WithSumToOne(ObjectiveConstraints(target_risk), target_risk,
                                  constraints, initial_weights)
             result == Minimize(cons, solver)
         IN  IF result.status = "exception"
             THEN [kind |-> "return", value |-> Ones(num_assets),
                   log |-> "Error during optimization"]
             ELSE IF result.status = "success"
             THEN [kind |-> "return",
                   value |-> ClipAndNormalize(result.x, num_assets),
                   log |-> "none"]
             ELSE [kind |-> "return", value |-> EqualWeights(num_assets),
                   log |-> "Optimization failed"]

\* Inputs of a call.
TargetRisks == {None, Rat(3, 40)}
Lambdas == {None, Rat(1, 2)}
ConstraintArgs ==
    { c \in [given : BOOLEAN, sum_to_one : BOOLEAN, long_only : BOOLEAN] :
        ~c.given => (~c.sum_to_one /\ ~c.long_only) }

\* Values a component of result.x takes: inside, on and outside [0, 1].
XVals == {Rat(-1, 4), Zero, Rat(1, 2), Rat(5, 4)}

SolverResults(n) ==
    {[status |-> "success", x |-> v] : v \in [1..n -> XVals]}
      \cup {[status |-> st, x |-> <<>>] : st \in {"failure", "exception"}}

InitOpt ==
    /\ InitBacktester
    /\ row_kind = [d \in Dates |-> "complete"]
    /\ InitPairIdle
    /\ InitOptIdle
    /\ InitRegIdle
    /\ InitSelIdle

\* One call of mean_variance_optimization.
CallOptimizer ==
    /\ opt_pc = "idle"
    /\ \E n \in 0..MaxAssets, tr \in TargetRisks, lam \in Lambdas,
          c \in ConstraintArgs :
          \E solver \in SolverResults(n) :
             LET r == MeanVarianceOptimization(n, tr, lam, c, solver)
             IN  /\ opt_args' = [num_assets |-> n, target_risk |-> tr,
                                 risk_aversion_lambda |-> lam,
                                 constraints |-> c, solver |-> solver]
                 /\ opt_result' = r
                 /\ opt_pc' = IF r.kind = "raise" THEN "raised" ELSE "returned"
    /\ UNCHANGED <<btVars, pairVars, regVars, selVars>>

NextOpt == CallOptimizer

SpecOpt == InitOpt /\ [][NextOpt]_vars

\* ---------------------------------------------- properties of the allocator
\* C6. Weight validity: with long_only set and at least one asset, every
\* returned vector has non-negative components summing to 1, and on the two
\* failure exits it is the equal-weight vector.
AllocatorWeightsValid ==
    ( /\ opt_pc = "returned"
      /\ opt_args.num_assets >= 1
      /\ opt_args.constraints.given
      /\ opt_args.constraints.long_only )
    => /\ \A j \in 1..Len(opt_result.value) : RLe(Zero, opt_result.value[j])
       /\ SeqSum(opt_result.value) = One
       /\ opt_result.log # "none" =>
              opt_result.value = EqualWeights(opt_args.num_assets)

\* C9. Invalid objective fails fast: a call with neither target_risk nor
\* risk_aversion_lambda raises, whatever the asset universe, and a call with
\* an empty asset universe raises.
InvalidObjectiveRaises ==
    opt_pc # "idle" =>
      /\ ( /\ opt_args.target_risk = None
           /\ opt_args.risk_aversion_lambda = None ) => opt_result.kind = "raise"
      /\ opt_args.num_assets = 0 => opt_result.kind = "raise"


\* ------------------------------------------------------ the regime classifier

\* config/settings.py
REGIME_THRESHOLD_HIGH_VOL == Rat(15, 1000)
REGIME_THRESHOLD_LOW_VOL == Rat(5, 1000)

\* A missing value in the volatility column of the frame passed in.
NaN == <<0, 0>>

\* v >= t and v <= t on floats: False when v is NaN.
Ge(v, t) == v # NaN /\ RLe(t, v)
Le(v, t) == v # NaN /\ RLe(v, t)

\* regime[mask] = label
MaskAssign(series, mask, label) ==
    [j \in 1..Len(series) |-> IF mask[j] THEN label ELSE series[j]]

\* identify_regimes.  df is the frame's columns: whether vol_col is among
\* them, and the values of that column.
IdentifyRegimes(df, high_threshold, low_threshold) ==
    IF ~df.has_vol_col
    THEN [kind |-> "raise", value |-> <<>>]
    ELSE LET r0 == [j \in 1..Len(df.vol) |-> "Normal_Vol"]
             r1 == MaskAssign(r0, [j \in 1..Len(df.vol) |->
                                     Ge(df.vol[j], high_threshold)], "High_Vol")
             r2 == MaskAssign(r1, [j \in 1..Len(df.vol) |->
                                     Le(df.vol[j], low_threshold)], "Low_Vol")
         IN  [kind |-> "return", value |-> r2]

\* Inputs of a call: volatilities below, on and above the thresholds.
VolValues == {NaN, Zero, REGIME_THRESHOLD_LOW_VOL, Rat(1, 100),
              REGIME_THRESHOLD_HIGH_VOL, Rat(1, 50)}
Thresholds == {REGIME_THRESHOLD_LOW_VOL, Rat(1, 100), REGIME_THRESHOLD_HIGH_VOL}
VolColumns == UNION {[1..n -> VolValues] : n \in 0..MaxDates}

InitReg ==
    /\ InitBacktester
    /\ row_kind = [d \in Dates |-> "complete"]
    /\ InitPairIdle
    /\ InitOptIdle
    /\ InitRegIdle
    /\ InitSelIdle

\* One call of identify_regimes.
CallIdentifyRegimes ==
    /\ reg_pc = "idle"
    /\ \E has \in BOOLEAN, vol \in VolColumns, high \in Thresholds,
          low \in Thresholds :
          LET r == IdentifyRegimes([has_vol_col |-> has, vol |-> vol], high, low)
          IN  /\ has \/ vol = <<>>
              /\ reg_args' = [has_vol_col |-> has, vol |-> vol,
                              high_threshold |-> high, low_threshold |-> low]
              /\ regime' = r.value
              /\ reg_pc' = IF r.kind = "raise" THEN "raised" ELSE "returned"
    /\ UNCHANGED <<btVars, pairVars, optVars, selVars>>

NextReg == CallIdentifyRegimes

SpecReg == InitReg /\ [][NextReg]_vars

\* ------------------------------------- properties of the regime classifier

\* C11. Every period's label is High_Vol when its volatility is >= the high
\* threshold, otherwise Low_Vol when it is <= the low threshold, otherwise
\* Normal_Vol; a value that is both >= high and <= low is labelled High_Vol.
HighVolWinsOverlap ==
    reg_pc = "returned" =>
        \A j \in 1..Len(regime) :
            regime[j] =
                IF Ge(reg_args.vol[j], reg_args.high_threshold) THEN "High_Vol"
                ELSE IF Le(reg_args.vol[j], reg_args.low_threshold) THEN "Low_Vol"
                ELSE "Normal_Vol"

\* ---------------------------------------------------- the regime selector

\* config/settings.py
TARGET_RISK_ANNUAL == Rat(15, 100)
LAMBDA_RISK_AVERSION == Rat(1, 2)

\* An emptiness test that looks at the columns only.
WindowHasNoColumns(rows, num_assets) == num_assets = 0

\* lookback_returns.empty: some axis of the frame has length 0.
WindowIsEmpty(rows, num_assets) == rows = 0 \/ num_assets = 0

\* The final step without the division by the sum.
ClipOnly(weights, num_assets) == Clip01(weights)

\* Lines 48-53: clip into [0, 1], then divide by the sum, or equal weights
\* when the sum is 0.
ClipAndRenormalize(weights, num_assets) ==
    LET clipped == Clip01(weights)
        total == SeqSum(clipped)
    IN  IF total # Zero
        THEN [j \in 1..Len(clipped) |-> RDiv(clipped[j], total)]
        ELSE EqualWeights(num_assets)

\* The keyword arguments of the regime's call of mean_variance_optimization.
RegimeObjective(current_regime) ==
    IF current_regime = "High_Vol"
    THEN [target_risk |-> RMul(TARGET_RISK_ANNUAL, Rat(1, 2)),
          risk_aversion_lambda |-> None]
    ELSE IF current_regime = "Low_Vol"
    THEN [target_risk |-> None,
          risk_aversion_lambda |-> RMul(LAMBDA_RISK_AVERSION, Rat(3, 2))]
    ELSE [target_risk |-> None, risk_aversion_lambda |-> LAMBDA_RISK_AVERSION]

\* generate_regime_specific_weights on a window of `rows` rows over
\* `num_assets` symbols.  `calls` lists the calls of
\* mean_variance_optimization made, `log` the warning printed.
GenerateRegimeSpecificWeights(current_regime, rows, num_assets, solver) ==
    IF WindowIsEmpty(rows, num_assets)
    THEN [kind |-> "return", value |-> EqualWeights(num_assets),
          calls |-> <<>>, log |-> "No lookback returns"]
    ELSE LET objective == RegimeObjective(current_regime)
             constraints == [given |-> TRUE, sum_to_one |-> TRUE,
                             long_only |-> TRUE]
             r == MeanVarianceOptimization(num_assets, objective.target_risk,
                                           objective.risk_aversion_lambda,
                                           constraints, solver)
         IN  IF r.kind = "raise"
             THEN [kind |-> "raise", value |-> <<>>,
                   calls |-> <<objective>>, log |-> r.log]
             ELSE [kind |-> "return",
                   value |-> ClipAndRenormalize(r.value, num_assets),
                   calls |-> <<objective>>, log |-> r.log]

\* Inputs of a call: the three regimes and a label that is none of them.
RegimeLabels == {"High_Vol", "Low_Vol", "Normal_Vol", "Crisis"}

InitSel ==
    /\ InitBacktester
    /\ row_kind = [d \in Dates |-> "complete"]
    /\ InitPairIdle
    /\ InitOptIdle
    /\ InitRegIdle
    /\ InitSelIdle

\* One call of generate_regime_specific_weights.
CallSelector ==
    /\ sel_pc = "idle"
    /\ \E label \in RegimeLabels, rows \in 0..MaxDates, n \in 0..MaxAssets :
          \E solver \in SolverResults(n) :
             LET r == GenerateRegimeSpecificWeights(label, rows, n, solver)
             IN  /\ sel_args' = [current_regime |-> label, rows |-> rows,
                                 num_assets |-> n, solver |-> solver]
                 /\ sel_result' = r
                 /\ sel_pc' = IF r.kind = "raise" THEN "raised" ELSE "returned"
    /\ UNCHANGED <<btVars, pairVars, optVars, regVars>>

NextSel == CallSelector

SpecSel == InitSel /\ [][NextSel]_vars

\* --------------------------------------- properties of the regime selector

\* C12. Fallback determinism: for every regime label, a call with a zero-row
\* window over N symbols returns exactly the equal-weight vector (1/N per
\* symbol) and makes no call of mean_variance_optimization.
FallbackDeterminism ==
    (sel_pc # "idle" /\ sel_args.rows = 0) =>
        /\ sel_pc = "returned"
        /\ sel_result.value = [j \in 1..sel_args.num_assets |->
                                  Rat(1, sel_args.num_assets)]
        /\ sel_result.calls = <<>>

\* C12 witness: a zero-row window over at least two symbols, for a regime
\* whose branch would otherwise run, answered with equal weights.
FallbackDeterminismWitness ==
    /\ sel_pc = "returned"
    /\ sel_args.rows = 0
    /\ sel_args.num_assets >= 2
    /\ sel_args.current_regime = "High_Vol"
    /\ sel_result.calls = <<>>
    /\ sel_result.value = EqualWeights(sel_args.num_assets)

\* C14. For every regime label, known or not, every non-empty window and
\* every outcome of the allocator (success, non-convergence, exception), the
\* call returns a vector with every component in [0, 1] and summing to 1.
SelectorWeightsValid ==
    (sel_pc # "idle" /\ ~WindowIsEmpty(sel_args.rows, sel_args.num_assets)) =>
        /\ sel_pc = "returned"
        /\ Len(sel_result.value) = sel_args.num_assets
        /\ \A j \in 1..Len(sel_result.value) :
              RLe(Zero, sel_result.value[j]) /\ RLe(sel_result.value[j], One)
        /\ SeqSum(sel_result.value) = One

\* C14 witness: a non-empty window over at least two symbols whose allocator
\* call took the exception exit and returned a vector of ones, which the
\* selector turned into equal weights.
SelectorWeightsValidWitness ==
    /\ sel_pc = "returned"
    /\ sel_args.rows > 0
    /\ sel_args.num_assets >= 2
    /\ sel_result.calls # <<>>
    /\ sel_result.log = "Error during optimization"
    /\ sel_result.value = EqualWeights(sel_args.num_assets)

====
